---- MODULE Spec2Model ----
(***************************************************************************)
(* The JNI bridge of sqlitecloud-kotlin (sqlitecloud.cpp): every exported  *)
(* Java_io_sqlitecloud_SQLiteCloudBridge_* function, the helpers they      *)
(* share, and the pubSubCallback trampoline.                               *)
(*                                                                         *)
(* The JVM (the host) and the native client library (sqcloud.h) are the    *)
(* environment: the host chooses the arguments of each call, the native    *)
(* library chooses what each SQCloud* function returns.  A bridge call is  *)
(* one action; it leaves in `last` the record of what it did: the          *)
(* arguments it got, the native calls it made with their arguments, and    *)
(* what it returned to the host.                                           *)
(***************************************************************************)
EXTENDS Integers, Sequences, FiniteSets, TLC

(***************************************************************************)
(* Bounds of the model.                                                    *)
(***************************************************************************)
MaxPubSubData == 2      \* PubSubData blocks the model lets the bridge allocate
MaxStrLen == 2          \* UTF-16 code units in a host string
MaxMem == 3             \* bytes of native memory readable from a value pointer
MaxParams == 2          \* elements of the params array of executeArrayCommand

(***************************************************************************)
(* Program constants.                                                      *)
(***************************************************************************)
PointerSize == 8        \* sizeof(void *), the capacity wrapPointer gives a handle
VALUE_BLOB == 4         \* SQCLOUD_VALUE_TYPE of a blob parameter (sqcloud.h)
VALUE_TEXT == 3         \* SQCLOUD_VALUE_TYPE of a text parameter (sqcloud.h)

(***************************************************************************)
(* JNI values.                                                             *)
(*   a java.nio.ByteBuffer reference: null, or a direct buffer over native *)
(*   memory at `address` with `capacity` bytes;                            *)
(*   a java.lang.String reference: null, or its UTF-16 code units;         *)
(*   a java.lang.Integer reference: null, or the boxed value;              *)
(*   a native char pointer: address 0 (nullptr), or an address with the    *)
(*   bytes readable from it (`mem`).                                       *)
(***************************************************************************)
NullRef == [null |-> TRUE, address |-> 0, capacity |-> 0]

NewDirectByteBuffer(address, capacity) ==
    [null |-> FALSE, address |-> address, capacity |-> capacity]

GetDirectBufferAddress(buffer) == IF buffer.null THEN 0 ELSE buffer.address

GetDirectBufferCapacity(buffer) == IF buffer.null THEN -1 ELSE buffer.capacity

NullString == [null |-> TRUE, chars |-> << >>]

JString(chars) == [null |-> FALSE, chars |-> chars]

NullInteger == [null |-> TRUE, value |-> 0]

NewInteger(value) == [null |-> FALSE, value |-> value]

NullChars == [addr |-> 0, mem |-> << >>]

CharsAt(addr, mem) == [addr |-> addr, mem |-> mem]

(***************************************************************************)
(* Modified UTF-8, the encoding of GetStringUTFChars and NewStringUTF:     *)
(* U+0001..U+007F take one byte, U+0000 and U+0080..U+07FF two, every      *)
(* other UTF-16 code unit three (a surrogate is encoded on its own).       *)
(***************************************************************************)
EncodeUnit(u) ==
    IF u >= 1 /\ u <= 127 THEN << u >>
    ELSE IF u <= 2047 THEN << 192 + (u \div 64), 128 + (u % 64) >>
    ELSE << 224 + (u \div 4096), 128 + ((u \div 64) % 64), 128 + (u % 64) >>

RECURSIVE EncodeModifiedUTF8(_)
EncodeModifiedUTF8(chars) ==
    IF chars = << >> THEN << >>
    ELSE EncodeUnit(Head(chars)) \o EncodeModifiedUTF8(Tail(chars))

RECURSIVE DecodeModifiedUTF8(_)
DecodeModifiedUTF8(bytes) ==
    IF bytes = << >> THEN << >>
    ELSE LET b == Head(bytes) IN
         IF b >= 224 /\ Len(bytes) >= 3
         THEN << (b - 224) * 4096 + (bytes[2] % 64) * 64 + (bytes[3] % 64) >>
              \o DecodeModifiedUTF8(SubSeq(bytes, 4, Len(bytes)))
         ELSE IF b >= 192 /\ Len(bytes) >= 2
         THEN << (b - 192) * 64 + (bytes[2] % 64) >>
              \o DecodeModifiedUTF8(SubSeq(bytes, 3, Len(bytes)))
         ELSE << b >> \o DecodeModifiedUTF8(Tail(bytes))

\* The bytes of the C string at a char pointer: those before the first NUL.
RECURSIVE UpToNul(_)
UpToNul(mem) ==
    IF mem = << >> \/ Head(mem) = 0 THEN << >>
    ELSE << Head(mem) >> \o UpToNul(Tail(mem))

\* env->GetStringUTFChars: a fresh NUL-terminated modified UTF-8 copy (at
\* some address of the JVM's choosing, 90 here).
GetStringUTFChars(string) ==
    CharsAt(90, EncodeModifiedUTF8(string.chars) \o << 0 >>)

\* env->GetStringLength: the number of UTF-16 code units.
GetStringLength(string) == Len(string.chars)

\* env->NewStringUTF: reads the bytes at the pointer up to the first NUL.
NewStringUTF(chars) ==
    IF chars.addr = 0 THEN NullString
    ELSE JString(DecodeModifiedUTF8(UpToNul(chars.mem)))

(***************************************************************************)
(* The helpers of sqlitecloud.cpp.                                         *)
(***************************************************************************)
cString(string) == IF string.null THEN NullChars ELSE GetStringUTFChars(string)

wrapPointerNoNullCheck(pointer) == NewDirectByteBuffer(pointer, PointerSize)

wrapPointer(pointer) ==
    IF pointer = 0 THEN NullRef ELSE NewDirectByteBuffer(pointer, PointerSize)

unwrapPointer(wrappedPointer) == GetDirectBufferAddress(wrappedPointer)

unwrapResult(wrappedResult) == unwrapPointer(wrappedResult)

unwrapBlob(wrappedBlob) == unwrapPointer(wrappedBlob)

unwrapVM(wrappedVM) == unwrapPointer(wrappedVM)

(***************************************************************************)
(* The record a bridge call leaves: the exported function, the arguments   *)
(* the host passed, the native calls made in order, the value returned.    *)
(***************************************************************************)
NativeCall(fn, args, ret) == [fn |-> fn, args |-> args, ret |-> ret]

Done(fn, args, native, ret) ==
    [fn |-> fn, args |-> args, ret |-> ret, native |-> native,
     acquired |-> << >>, released |-> << >>]

\* The same call, having obtained `acquisitions` on its way: character buffers
\* from GetStringUTFChars, array views from GetIntArrayElements, arrays from
\* calloc.  `released` lists what the call gave back before it returned;
\* sqlitecloud.cpp has no ReleaseStringUTFChars, ReleaseIntArrayElements or
\* free, so no call adds to it.
Holding(acquisitions, call) == [call EXCEPT !.acquired = acquisitions]

\* What cString(string) obtains: nothing for a null string (line 14-16),
\* otherwise the buffer of GetStringUTFChars (line 17).
StringUTFChars(string) ==
    IF string.null THEN << >> ELSE << "GetStringUTFChars" >>

Void == "void"

\* No call is being returned: the host has taken the last result.
NoCall == Done("none", << >>, << >>, Void)

(***************************************************************************)
(* The environment's small worlds.                                         *)
(***************************************************************************)
Bridges == {1, 2}                   \* SQLiteCloudBridge objects of the host
HostThreads == {"main"}             \* threads that call into the bridge
EventThreads == {"main", "pubsub"}  \* threads the library may raise events on
ConnPtrs == {1, 2}                  \* addresses of SQCloudConnection objects
ResultPtrs == {11}                  \* addresses of SQCloudResult objects
VMPtrs == {21}                      \* addresses of SQCloudVM objects
BlobPtrs == {31}                    \* addresses of SQCloudBlob objects

\* The JNIEnv of a thread: JNI gives every attached thread its own.
EnvOf(thread) == thread

\* A JNI local reference: valid only inside the native frame it was made for.
LocalRef(obj, frame) == [obj |-> obj, frame |-> frame, kind |-> "local"]

Frame(thread, fn) == [fn |-> fn, thread |-> thread]

IsValidReference(ref, running) == ref.kind = "global" \/ ref.frame = running

\* The error state the native library keeps for a connection.
NoError == [is |-> FALSE, code |-> 0, msg |-> CharsAt(50, << 0 >>),
            xcode |-> 0, offset |-> -1]

NativeErrors ==
    { NoError,
      [is |-> TRUE, code |-> 101, msg |-> CharsAt(51, << 69, 49, 0 >>),
       xcode |-> 201, offset |-> 301],
      [is |-> TRUE, code |-> 102, msg |-> CharsAt(52, << 69, 50, 0 >>),
       xcode |-> 202, offset |-> 302] }

\* What the library answers for a null connection. 
NullConnectionError ==
    [is |-> TRUE, code |-> 100, msg |-> CharsAt(53, << 78, 0 >>),
     xcode |-> 200, offset |-> 300]

NoCallback == [fn |-> "none", data |-> 0, by |-> 0]

NoAccessor == [fn |-> "none", thiz |-> 0, conn |-> 0]

FreeConnection == [live |-> FALSE, err |-> NoError, cb |-> NoCallback]

VARIABLES
    connection,     \* bridge object -> its `connection` field (a ByteBuffer)
    nativeConn,     \* the library's SQCloudConnection objects, by address
    pubSubHeap,     \* the PubSubData blocks the bridge has allocated (new)
    jvm,            \* "running", or "aborted" once the JVM has been brought down
    last,           \* the record of the last bridge call or callback
    inAccessor      \* the error accessor a thread is inside of, between its
                    \* SQCloudIsError and its value read, or NoAccessor

vars == << connection, nativeConn, pubSubHeap, jvm, last, inAccessor >>

Init ==
    /\ connection = [b \in Bridges |-> NullRef]
    /\ nativeConn = [c \in ConnPtrs |-> FreeConnection]
    /\ pubSubHeap = << >>
    /\ jvm = "running"
    /\ last = NoCall
    /\ inAccessor = NoAccessor

\* SQCloudConnection *getConnection(env, thiz)
getConnection(thiz) == GetDirectBufferAddress(connection[thiz])

\* The library's view of a connection pointer.
SQCloudErrorState(conn) ==
    IF conn = 0 THEN NullConnectionError ELSE nativeConn[conn].err

\* The host uses a bridge object whose field is null or names a live connection.
IsLive(conn) == IF conn = 0 THEN FALSE ELSE nativeConn[conn].live

Usable(thiz) == getConnection(thiz) = 0 \/ IsLive(getConnection(thiz))

\* A bridge call or a callback starts when the JVM runs and the host has
\* taken the result of the call before.
CanCall == jvm = "running" /\ last = NoCall

\* The host takes the result of the last call and goes on.
HostResumes ==
    /\ jvm = "running"
    /\ last # NoCall
    /\ last' = NoCall
    /\ UNCHANGED << connection, nativeConn, pubSubHeap, jvm, inAccessor >>

\* A call that touches nothing but its own arguments and the library.
Returns(call) ==
    /\ CanCall
    /\ last' = call
    /\ UNCHANGED << connection, nativeConn, pubSubHeap, jvm, inAccessor >>

(***************************************************************************)
(* Coercions at the call boundary.                                         *)
(***************************************************************************)
\* static_cast<bool>(jboolean): a jboolean is an 8-bit integer.
ToBool(jboolean) == jboolean # 0

\* a native bool returned as a jboolean.
ToJBoolean(bool) == IF bool THEN 1 ELSE 0

\* an integer stored into a uint32_t: array lengths, string lengths and the
\* capacities of direct buffers lie in 0..2^31-1, where the value is kept; the
\* -1 that GetDirectBufferCapacity answers for an object that is no direct
\* buffer becomes 2^32 - 1, written here as the residue of -1 modulo 2^32.
ToUint32(n) == IF n >= 0 THEN n ELSE [modulo |-> "2^32", residue |-> n]

JBooleans == {0, 1}
NativeInts == {0, 5}
NativeBools == BOOLEAN

(***************************************************************************)
(* doConnect                                                               *)
(***************************************************************************)
ConfigOf(a) ==
    [username |-> cString(a.username),
     password |-> cString(a.password),
     database |-> IF ~a.database.null THEN cString(a.database) ELSE NullChars,
     timeout |-> a.timeout,
     family |-> a.family,
     compression |-> ToBool(a.compression),
     sqlite_mode |-> ToBool(a.sqlite_mode),
     zero_text |-> ToBool(a.zero_text),
     password_hashed |-> ToBool(a.password_hashed),
     nonlinearizable |-> ToBool(a.nonlinearizable),
     db_memory |-> ToBool(a.db_memory),
     no_blob |-> ToBool(a.no_blob),
     db_create |-> ToBool(a.db_create),
     max_data |-> a.max_data,
     max_rows |-> a.max_rows,
     max_rowset |-> a.max_rowset,
     tls_root_certificate |->
         IF ~a.tls_root_certificate.null THEN cString(a.tls_root_certificate)
         ELSE NullChars,
     tls_certificate |->
         IF ~a.tls_certificate.null THEN cString(a.tls_certificate) ELSE NullChars,
     tls_certificate_key |->
         IF ~a.tls_certificate_key.null THEN cString(a.tls_certificate_key)
         ELSE NullChars,
     insecure |-> ToBool(a.insecure)]

\* A plausible slip: two neighbouring string fields exchanged.
doConnectSwapped(a, conn) ==
    Done("doConnect", << a >>,
         << NativeCall("SQCloudConnect",
                       << cString(a.hostname), a.port,
                          [ConfigOf(a) EXCEPT !.username = cString(a.password),
                                              !.password = cString(a.username)] >>,
                       conn) >>,
         wrapPointer(conn))

\* The buffers ConfigOf(a) obtains, one per cString call it makes.
ConfigStrings(a) ==
    StringUTFChars(a.username) \o StringUTFChars(a.password)
      \o StringUTFChars(a.database) \o StringUTFChars(a.tls_root_certificate)
      \o StringUTFChars(a.tls_certificate) \o StringUTFChars(a.tls_certificate_key)

doConnect(a, conn) ==
    Holding(ConfigStrings(a) \o StringUTFChars(a.hostname),
      Done("doConnect", << a >>,
           << NativeCall("SQCloudConnect",
                         << cString(a.hostname), a.port, ConfigOf(a) >>, conn) >>,
           wrapPointer(conn)))

\* The arguments of one doConnect call, every field different from the others
\* of its type.
BaseArgs ==
    [username |-> JString(<< 117 >>), password |-> JString(<< 112 >>),
     database |-> JString(<< 100 >>), timeout |-> 12, family |-> 2,
     compression |-> 1, sqlite_mode |-> 0, zero_text |-> 1,
     password_hashed |-> 0, nonlinearizable |-> 1, db_memory |-> 0,
     no_blob |-> 1, db_create |-> 0,
     max_data |-> 33, max_rows |-> 44, max_rowset |-> 55,
     tls_root_certificate |-> JString(<< 114 >>),
     tls_certificate |-> JString(<< 99 >>),
     tls_certificate_key |-> JString(<< 107 >>), insecure |-> 1,
     hostname |-> JString(<< 104 >>), port |-> 8860]

\* Connection addresses the library can hand out for `thiz`: not in use, and
\* not the stale value of another bridge object's field.
FreeConnPtrs(thiz) ==
    { c \in ConnPtrs :
        /\ ~nativeConn[c].live
        /\ \A b \in Bridges \ {thiz} : GetDirectBufferAddress(connection[b]) # c }

\* doConnect on `thiz`; the host stores the handle in thiz.connection.
Connect(thiz, a) ==
    /\ CanCall
    /\ ~IsLive(getConnection(thiz))
    /\ \E conn \in {0} \cup FreeConnPtrs(thiz), err \in NativeErrors :
         /\ last' = doConnect(a, conn)
         /\ connection' = [connection EXCEPT ![thiz] = wrapPointer(conn)]
         /\ nativeConn' =
              IF conn = 0 THEN nativeConn
              ELSE [nativeConn EXCEPT
                      ![conn] = [live |-> TRUE, err |-> err, cb |-> NoCallback]]
    /\ UNCHANGED << pubSubHeap, jvm, inAccessor >>

DoConnect == \E thiz \in Bridges : Connect(thiz, BaseArgs)

(***************************************************************************)
(* doDisconnect, isError, isSQLiteError                                    *)
(***************************************************************************)
DoDisconnect ==
    /\ CanCall
    /\ \E thiz \in Bridges :
      LET conn == getConnection(thiz) IN
      /\ CanCall
      /\ Usable(thiz)
      /\ last' = Done("doDisconnect", << thiz >>,
                      << NativeCall("SQCloudDisconnect", << conn >>, Void) >>, Void)
      /\ nativeConn' = IF conn = 0 THEN nativeConn
                       ELSE [nativeConn EXCEPT ![conn] = FreeConnection]
      /\ UNCHANGED << connection, pubSubHeap, jvm, inAccessor >>

IsError ==
    /\ CanCall
    /\ \E thiz \in Bridges :
      LET conn == getConnection(thiz)
          r == SQCloudErrorState(conn).is IN
      /\ Usable(thiz)
      /\ Returns(Done("isError", << thiz >>,
                      << NativeCall("SQCloudIsError", << conn >>, r) >>,
                      ToJBoolean(r)))

IsSQLiteError ==
    /\ CanCall
    /\ \E thiz \in Bridges, r \in NativeBools :
      /\ Usable(thiz)
      /\ Returns(Done("isSQLiteError", << thiz >>,
                      << NativeCall("SQCloudIsSQLiteError",
                                    << getConnection(thiz) >>, r) >>,
                      ToJBoolean(r)))

(***************************************************************************)
(* errorCode, errorMessage, extendedErrorCode, errorOffset                 *)
(***************************************************************************)
\* A plausible slip: the accessor of another field.
errorCodeExtended(thiz) ==
    LET conn == getConnection(thiz)
        e == SQCloudErrorState(conn) IN
    IF ~e.is
    THEN Done("errorCode", << thiz >>,
              << NativeCall("SQCloudIsError", << conn >>, FALSE) >>, NullInteger)
    ELSE Done("errorCode", << thiz >>,
              << NativeCall("SQCloudIsError", << conn >>, TRUE),
                 NativeCall("SQCloudExtendedErrorCode", << conn >>, e.xcode) >>,
              NewInteger(e.xcode))

errorCode(thiz) ==
    LET conn == getConnection(thiz)
        e == SQCloudErrorState(conn) IN
    IF ~e.is
    THEN Done("errorCode", << thiz >>,
              << NativeCall("SQCloudIsError", << conn >>, FALSE) >>, NullInteger)
    ELSE Done("errorCode", << thiz >>,
              << NativeCall("SQCloudIsError", << conn >>, TRUE),
                 NativeCall("SQCloudErrorCode", << conn >>, e.code) >>,
              NewInteger(e.code))

errorMessage(thiz) ==
    LET conn == getConnection(thiz)
        e == SQCloudErrorState(conn) IN
    IF ~e.is
    THEN Done("errorMessage", << thiz >>,
              << NativeCall("SQCloudIsError", << conn >>, FALSE) >>, NullString)
    ELSE Done("errorMessage", << thiz >>,
              << NativeCall("SQCloudIsError", << conn >>, TRUE),
                 NativeCall("SQCloudErrorMsg", << conn >>, e.msg) >>,
              NewStringUTF(e.msg))

extendedErrorCode(thiz) ==
    LET conn == getConnection(thiz)
        e == SQCloudErrorState(conn) IN
    IF ~e.is
    THEN Done("extendedErrorCode", << thiz >>,
              << NativeCall("SQCloudIsError", << conn >>, FALSE) >>, NullInteger)
    ELSE Done("extendedErrorCode", << thiz >>,
              << NativeCall("SQCloudIsError", << conn >>, TRUE),
                 NativeCall("SQCloudExtendedErrorCode", << conn >>, e.xcode) >>,
              NewInteger(e.xcode))

errorOffset(thiz) ==
    LET conn == getConnection(thiz)
        e == SQCloudErrorState(conn) IN
    IF ~e.is
    THEN Done("errorOffset", << thiz >>,
              << NativeCall("SQCloudIsError", << conn >>, FALSE) >>, NullInteger)
    ELSE Done("errorOffset", << thiz >>,
              << NativeCall("SQCloudIsError", << conn >>, TRUE),
                 NativeCall("SQCloudErrorOffset", << conn >>, e.offset) >>,
              NewInteger(e.offset))

ErrorCode == \E thiz \in Bridges : Usable(thiz) /\ Returns(errorCode(thiz))

ErrorMessage == \E thiz \in Bridges : Usable(thiz) /\ Returns(errorMessage(thiz))

ExtendedErrorCode ==
    /\ CanCall
    /\ \E thiz \in Bridges : Usable(thiz) /\ Returns(extendedErrorCode(thiz))

ErrorOffset == \E thiz \in Bridges : Usable(thiz) /\ Returns(errorOffset(thiz))

(***************************************************************************)
(* vmErrorCode, vmErrorMessage, getClientUUID                              *)
(***************************************************************************)
VMHandles == {NullRef} \cup { wrapPointer(vm) : vm \in VMPtrs }

NativeCStrings == { NullChars, CharsAt(70, << 85, 0 >>) }

VmErrorCode ==
    /\ CanCall
    /\ \E wrappedVM \in VMHandles, code \in NativeInts :
      LET vm == unwrapVM(wrappedVM) IN
      Returns(IF vm = 0
              THEN Done("vmErrorCode", << wrappedVM >>, << >>, NullInteger)
              ELSE Done("vmErrorCode", << wrappedVM >>,
                        << NativeCall("SQCloudVMErrorCode", << vm >>, code) >>,
                        NewInteger(code)))

VmErrorMessage ==
    /\ CanCall
    /\ \E wrappedVM \in VMHandles, msg \in NativeCStrings :
      LET vm == unwrapVM(wrappedVM) IN
      Returns(IF vm = 0
              THEN Done("vmErrorMessage", << wrappedVM >>, << >>, NullString)
              ELSE Done("vmErrorMessage", << wrappedVM >>,
                        << NativeCall("SQCloudVMErrorMsg", << vm >>, msg) >>,
                        NewStringUTF(msg)))

GetClientUUID ==
    /\ CanCall
    /\ \E thiz \in Bridges, uuid \in NativeCStrings :
      LET conn == getConnection(thiz) IN
      /\ Usable(thiz)
      /\ Returns(IF conn = 0
                 THEN Done("getClientUUID", << thiz >>, << >>, NullString)
                 ELSE Done("getClientUUID", << thiz >>,
                           << NativeCall("SQCloudUUID", << conn >>, uuid) >>,
                           NewStringUTF(uuid)))

(***************************************************************************)
(* pubSubCallback, setPubSubCallback, setPubSubOnly                        *)
(***************************************************************************)
\* struct PubSubData { JNIEnv *env; jobject thiz; }
PubSubData(env, thiz) == [thiz |-> thiz, env |-> env]

\* What env->CallVoidMethod(thiz, "pubSubCallback", wrappedResult) does.  With
\* the JNIEnv of the running thread and a valid reference it invokes the
\* method on the object referred to.  With another thread's JNIEnv or a
\* reference that is no longer valid the behaviour is undefined: the call may
\* land on the object, land on another object whose reference now occupies the
\* slot, or bring the JVM down.
CallVoidMethodOutcomes(env, thiz, running, wrappedResult) ==
    IF env = EnvOf(running.thread) /\ IsValidReference(thiz, running)
    THEN { [jvm |-> "running",
            invoked |-> << [obj |-> thiz.obj, method |-> "pubSubCallback",
                            arg |-> wrappedResult] >>] }
    ELSE { [jvm |-> "running",
            invoked |-> << [obj |-> o, method |-> "pubSubCallback",
                            arg |-> wrappedResult] >>] : o \in Bridges }
         \cup { [jvm |-> "aborted", invoked |-> << >>] }

\* void pubSubCallback(connection, result, data), run on `thread` by the
\* library; `by` is the bridge object whose setPubSubCallback registered it.
pubSubCallback(thread, conn, result, data, by, outcome) ==
    LET pubSubData == pubSubHeap[data]
        env == pubSubData.env
        thiz == pubSubData.thiz
        running == Frame(thread, "pubSubCallback") IN
    [fn |-> "pubSubCallback",
     args |-> << conn, result, data >>,
     ret |-> Void,
     native |-> << >>,
     acquired |-> << >>,
     released |-> << >>,
     thread |-> thread,
     by |-> by,
     thiz |-> thiz,
     env |-> env,
     invoked |-> outcome.invoked,
     envIsOfThread |-> (env = EnvOf(thread)),
     thizIsValid |-> IsValidReference(thiz, running)]

\* The library raises a pub/sub event on a connection that has a callback.
RaiseEvent ==
    /\ CanCall
    /\ \E conn \in ConnPtrs, thread \in EventThreads, result \in {0} \cup ResultPtrs :
      LET cb == nativeConn[conn].cb IN
      /\ CanCall
      /\ nativeConn[conn].live
      /\ cb.fn = "pubSubCallback"
      /\ \E outcome \in CallVoidMethodOutcomes(
                            pubSubHeap[cb.data].env, pubSubHeap[cb.data].thiz,
                            Frame(thread, "pubSubCallback"), wrapPointer(result)) :
           /\ last' = pubSubCallback(thread, conn, result, cb.data, cb.by, outcome)
           /\ jvm' = outcome.jvm
      /\ UNCHANGED << connection, nativeConn, pubSubHeap, inAccessor >>

\* A plausible slip: a second function that keeps a context block.
SetPubSubOnlyKeepingData ==
    /\ CanCall
    /\ \E thiz \in Bridges, result \in {0} \cup ResultPtrs :
      /\ CanCall
      /\ Usable(thiz)
      /\ Len(pubSubHeap) < MaxPubSubData
      /\ last' = Done("setPubSubOnly", << thiz >>,
                      << NativeCall("SQCloudSetPubSubOnly",
                                    << getConnection(thiz) >>, result) >>,
                      wrapPointer(result))
      /\ pubSubHeap' = Append(pubSubHeap, PubSubData(EnvOf("main"),
                                 LocalRef(thiz, Frame("main", "setPubSubOnly"))))
      /\ UNCHANGED << connection, nativeConn, jvm, inAccessor >>

SetPubSubCallback ==
    /\ CanCall
    /\ \E thread \in HostThreads, thiz \in Bridges :
      LET conn == getConnection(thiz)
          data == Len(pubSubHeap) + 1 IN
      /\ CanCall
      /\ Usable(thiz)
      /\ Len(pubSubHeap) < MaxPubSubData
      /\ pubSubHeap' = Append(pubSubHeap,
             PubSubData(EnvOf(thread),
                        LocalRef(thiz, Frame(thread, "setPubSubCallback"))))
      /\ nativeConn' =
           IF conn = 0 THEN nativeConn
           ELSE [nativeConn EXCEPT
                   ![conn].cb = [fn |-> "pubSubCallback", data |-> data, by |-> thiz]]
      /\ last' = Done("setPubSubCallback", << thiz >>,
                      << NativeCall("SQCloudSetPubSubCallback",
                                    << conn, "pubSubCallback", data >>, Void) >>,
                      Void)
      /\ UNCHANGED << connection, jvm, inAccessor >>

setPubSubOnly(thiz, result) ==
    Done("setPubSubOnly", << thiz >>,
         << NativeCall("SQCloudSetPubSubOnly", << getConnection(thiz) >>, result) >>,
         wrapPointer(result))

SetPubSubOnly ==
    /\ CanCall
    /\ \E thiz \in Bridges, result \in {0} \cup ResultPtrs :
      Usable(thiz) /\ Returns(setPubSubOnly(thiz, result))

(***************************************************************************)
(* executeCommand, executeArrayCommand                                     *)
(***************************************************************************)
Queries == { NullString, JString(<< 83 >>) }

\* A command leaves the connection's error state as the library decides.
Executes(thiz, call) ==
    LET conn == getConnection(thiz) IN
    /\ CanCall
    /\ Usable(thiz)
    /\ last' = call
    /\ \E err \in NativeErrors :
         nativeConn' = IF conn = 0 THEN nativeConn
                       ELSE [nativeConn EXCEPT ![conn].err = err]
    /\ UNCHANGED << connection, pubSubHeap, jvm, inAccessor >>

executeCommand(thiz, query, result) ==
    Holding(StringUTFChars(query),
      Done("executeCommand", << thiz, query >>,
           << NativeCall("SQCloudExec",
                         << getConnection(thiz), cString(query) >>, result) >>,
           wrapPointer(result)))

ExecuteCommand ==
    /\ CanCall
    /\ \E thiz \in Bridges, query \in Queries, result \in {0} \cup ResultPtrs :
      Executes(thiz, executeCommand(thiz, query, result))

\* The objects of a params array: a direct ByteBuffer or a String.
BufferParam(address, capacity) ==
    [buffer |-> NewDirectByteBuffer(address, capacity), string |-> NullString,
     isBuffer |-> TRUE]

StringParam(chars) ==
    [buffer |-> NullRef, string |-> JString(chars), isBuffer |-> FALSE]

\* The type the host declares for a parameter object.
TypeOfParam(param) == IF param.isBuffer THEN VALUE_BLOB ELSE VALUE_TEXT

\* `oob` is what a read of paramTypes past its last element yields.
executeArrayCommand(thiz, query, params, param_types, oob, result) ==
    LET conn == getConnection(thiz)
        command == cString(query)
        paramCount == ToUint32(Len(params))
        paramTypes(i) == IF i <= Len(param_types) THEN param_types[i] ELSE oob
        nativeParams ==
            [i \in 1..paramCount |->
               IF paramTypes(i) = VALUE_BLOB
               THEN CharsAt(GetDirectBufferAddress(params[i].buffer), << >>)
               ELSE cString(params[i].string)]
        paramLengths ==
            [i \in 1..paramCount |->
               IF paramTypes(i) = VALUE_BLOB
               THEN ToUint32(GetDirectBufferCapacity(params[i].buffer))
               ELSE ToUint32(GetStringLength(params[i].string))]
        types == param_types
        \* calloc(0, size) may return nullptr: counted only for paramCount > 0.
        arrays == IF paramCount > 0 THEN << "calloc", "calloc" >> ELSE << >>
        strings(i) == IF paramTypes(i) = VALUE_BLOB THEN << >>
                      ELSE StringUTFChars(params[i].string)
        paramStrings[i \in 0..paramCount] ==
            IF i = 0 THEN << >> ELSE paramStrings[i - 1] \o strings(i) IN
    Holding(StringUTFChars(query) \o arrays \o << "GetIntArrayElements" >>
              \o paramStrings[paramCount] \o << "GetIntArrayElements" >>,
      Done("executeArrayCommand", << thiz, query, params, param_types >>,
           << NativeCall("SQCloudExecArray",
                         << conn, command, nativeParams, paramLengths, types,
                            paramCount >>, result) >>,
           wrapPointer(result)))

ExecuteArrayCommand(paramArrays) ==
    /\ CanCall
    /\ \E thiz \in Bridges, params \in paramArrays, result \in {0} \cup ResultPtrs :
      Executes(thiz,
               executeArrayCommand(thiz, JString(<< 83 >>), params,
                                   [i \in 1..Len(params) |-> TypeOfParam(params[i])],
                                   0, result))

FewParamArrays ==
    { << >>, << StringParam(<< 65 >>) >>, << BufferParam(80, 4) >> }

(***************************************************************************)
(* Results: scalar, array and rowset accessors                             *)
(***************************************************************************)
BoundedSeq(S, n) == UNION { [1..k -> S] : k \in 0..n }

ResultHandles == {NullRef} \cup { wrapPointer(r) : r \in ResultPtrs }

Indexes == {0, 1}

\* A value inside a result as the library holds it: the pointer an accessor
\* returns (with the bytes readable from it) and the length the library
\* reports for the value.
NativeValue(ptr, len) == [ptr |-> ptr, len |-> len]

FewValues ==
    { NativeValue(NullChars, 0), NativeValue(CharsAt(60, << 65, 66, 0 >>), 2) }

Bytes == {0, 65, 66}

\* Every value of up to MaxMem readable bytes before the first NUL that is
\* certain to be there; the value is the first `len` of them.
AllValues ==
    UNION { { NativeValue(CharsAt(60, body \o << 0 >>), len) : len \in 0..Len(body) }
            : body \in BoundedSeq(Bytes, MaxMem) }

FreeResult ==
    /\ CanCall
    /\ \E wrappedResult \in ResultHandles :
      Returns(Done("freeResult", << wrappedResult >>,
                   << NativeCall("SQCloudResultFree",
                                 << unwrapResult(wrappedResult) >>, Void) >>, Void))

ResultType ==
    /\ CanCall
    /\ \E wrappedResult \in ResultHandles, r \in NativeInts :
      Returns(Done("resultType", << wrappedResult >>,
                   << NativeCall("SQCloudResultType",
                                 << unwrapResult(wrappedResult) >>, r) >>, r))

IntResult ==
    /\ CanCall
    /\ \E wrappedResult \in ResultHandles, r \in NativeInts :
      Returns(Done("intResult", << wrappedResult >>,
                   << NativeCall("SQCloudResultInt32",
                                 << unwrapResult(wrappedResult) >>, r) >>, r))

LongResult ==
    /\ CanCall
    /\ \E wrappedResult \in ResultHandles, r \in NativeInts :
      Returns(Done("longResult", << wrappedResult >>,
                   << NativeCall("SQCloudResultInt64",
                                 << unwrapResult(wrappedResult) >>, r) >>, r))

DoubleResult ==
    /\ CanCall
    /\ \E wrappedResult \in ResultHandles, r \in NativeInts :
      Returns(Done("doubleResult", << wrappedResult >>,
                   << NativeCall("SQCloudResultDouble",
                                 << unwrapResult(wrappedResult) >>, r) >>, r))

stringResult(wrappedResult, v) ==
    Done("stringResult", << wrappedResult >>,
         << NativeCall("SQCloudResultBuffer", << unwrapResult(wrappedResult) >>, v) >>,
         NewStringUTF(v.ptr))

StringResult(values) ==
    /\ CanCall
    /\ \E wrappedResult \in ResultHandles, v \in values :
      Returns(stringResult(wrappedResult, v))

bufferResult(wrappedResult, v) ==
    Done("bufferResult", << wrappedResult >>,
         << NativeCall("SQCloudResultBuffer", << unwrapResult(wrappedResult) >>, v),
            NativeCall("SQCloudResultLen", << unwrapResult(wrappedResult) >>, v.len) >>,
         NewDirectByteBuffer(v.ptr.addr, v.len))

BufferResult(values) ==
    /\ CanCall
    /\ \E wrappedResult \in ResultHandles, v \in values :
      Returns(bufferResult(wrappedResult, v))

ArrayResultSize ==
    /\ CanCall
    /\ \E wrappedResult \in ResultHandles, r \in NativeInts :
      Returns(Done("arrayResultSize", << wrappedResult >>,
                   << NativeCall("SQCloudArrayCount",
                                 << unwrapResult(wrappedResult) >>, r) >>, r))

ArrayResultValueType ==
    /\ CanCall
    /\ \E wrappedResult \in ResultHandles, index \in Indexes, r \in NativeInts :
      Returns(Done("arrayResultValueType", << wrappedResult, index >>,
                   << NativeCall("SQCloudArrayValueType",
                                 << unwrapResult(wrappedResult), index >>, r) >>, r))

ArrayResultLongValue ==
    /\ CanCall
    /\ \E wrappedResult \in ResultHandles, index \in Indexes, r \in NativeInts :
      Returns(Done("arrayResultLongValue", << wrappedResult, index >>,
                   << NativeCall("SQCloudArrayInt64Value",
                                 << unwrapResult(wrappedResult), index >>, r) >>, r))

ArrayResultDoubleValue ==
    /\ CanCall
    /\ \E wrappedResult \in ResultHandles, index \in Indexes, r \in NativeInts :
      Returns(Done("arrayResultDoubleValue", << wrappedResult, index >>,
                   << NativeCall("SQCloudArrayDoubleValue",
                                 << unwrapResult(wrappedResult), index >>, r) >>, r))

arrayResultStringValue(wrappedResult, index, v) ==
    Done("arrayResultStringValue", << wrappedResult, index >>,
         << NativeCall("SQCloudArrayValue",
                       << unwrapResult(wrappedResult), index >>, v) >>,
         NewStringUTF(v.ptr))

ArrayResultStringValue(values) ==
    /\ CanCall
    /\ \E wrappedResult \in ResultHandles, index \in Indexes, v \in values :
      Returns(arrayResultStringValue(wrappedResult, index, v))

\* A plausible slip: the value boxed like a handle.
arrayResultBufferValueAsHandle(wrappedResult, index, v) ==
    Done("arrayResultBufferValue", << wrappedResult, index >>,
         << NativeCall("SQCloudArrayValue",
                       << unwrapResult(wrappedResult), index >>, v) >>,
         wrapPointer(v.ptr.addr))

arrayResultBufferValue(wrappedResult, index, v) ==
    Done("arrayResultBufferValue", << wrappedResult, index >>,
         << NativeCall("SQCloudArrayValue",
                       << unwrapResult(wrappedResult), index >>, v) >>,
         NewDirectByteBuffer(v.ptr.addr, v.len))

ArrayResultBufferValue(values) ==
    /\ CanCall
    /\ \E wrappedResult \in ResultHandles, index \in Indexes, v \in values :
      Returns(arrayResultBufferValue(wrappedResult, index, v))

RowsetResultRowCount ==
    /\ CanCall
    /\ \E wrappedResult \in ResultHandles, r \in NativeInts :
      Returns(Done("rowsetResultRowCount", << wrappedResult >>,
                   << NativeCall("SQCloudRowsetRows",
                                 << unwrapResult(wrappedResult) >>, r) >>, r))

RowsetResultColumnCount ==
    /\ CanCall
    /\ \E wrappedResult \in ResultHandles, r \in NativeInts :
      Returns(Done("rowsetResultColumnCount", << wrappedResult >>,
                   << NativeCall("SQCloudRowsetCols",
                                 << unwrapResult(wrappedResult) >>, r) >>, r))

rowsetResultColumnName(wrappedResult, column, v) ==
    Done("rowsetResultColumnName", << wrappedResult, column >>,
         << NativeCall("SQCloudRowsetColumnName",
                       << unwrapResult(wrappedResult), column >>, v) >>,
         NewStringUTF(v.ptr))

RowsetResultColumnName(values) ==
    /\ CanCall
    /\ \E wrappedResult \in ResultHandles, column \in Indexes, v \in values :
      Returns(rowsetResultColumnName(wrappedResult, column, v))

RowsetResultValueType ==
    /\ CanCall
    /\ \E wrappedResult \in ResultHandles, row \in Indexes, column \in Indexes,
       r \in NativeInts :
      Returns(Done("rowsetResultValueType", << wrappedResult, row, column >>,
                   << NativeCall("SQCloudRowsetValueType",
                                 << unwrapResult(wrappedResult), row, column >>, r) >>,
                   r))

RowsetResultLongValue ==
    /\ CanCall
    /\ \E wrappedResult \in ResultHandles, row \in Indexes, column \in Indexes,
       r \in NativeInts :
      Returns(Done("rowsetResultLongValue", << wrappedResult, row, column >>,
                   << NativeCall("SQCloudRowsetInt64Value",
                                 << unwrapResult(wrappedResult), row, column >>, r) >>,
                   r))

RowsetResultDoubleValue ==
    /\ CanCall
    /\ \E wrappedResult \in ResultHandles, row \in Indexes, column \in Indexes,
       r \in NativeInts :
      Returns(Done("rowsetResultDoubleValue", << wrappedResult, row, column >>,
                   << NativeCall("SQCloudRowsetDoubleValue",
                                 << unwrapResult(wrappedResult), row, column >>, r) >>,
                   r))

rowsetResultStringValue(wrappedResult, row, column, v) ==
    Done("rowsetResultStringValue", << wrappedResult, row, column >>,
         << NativeCall("SQCloudRowsetValue",
                       << unwrapResult(wrappedResult), row, column >>, v) >>,
         NewStringUTF(v.ptr))

RowsetResultStringValue(values) ==
    /\ CanCall
    /\ \E wrappedResult \in ResultHandles, row \in Indexes, column \in Indexes,
       v \in values :
      Returns(rowsetResultStringValue(wrappedResult, row, column, v))

rowsetResultBufferValue(wrappedResult, row, column, v) ==
    Done("rowsetResultBufferValue", << wrappedResult, row, column >>,
         << NativeCall("SQCloudRowsetValue",
                       << unwrapResult(wrappedResult), row, column >>, v) >>,
         NewDirectByteBuffer(v.ptr.addr, v.len))

RowsetResultBufferValue(values) ==
    /\ CanCall
    /\ \E wrappedResult \in ResultHandles, row \in Indexes, column \in Indexes,
       v \in values :
      Returns(rowsetResultBufferValue(wrappedResult, row, column, v))

rowsetColumnName(wrappedResult, index, v) ==
    Done("rowsetColumnName", << wrappedResult, index >>,
         << NativeCall("SQCloudRowsetColumnName",
                       << unwrapResult(wrappedResult), index >>, v) >>,
         NewStringUTF(v.ptr))

RowsetColumnName(values) ==
    /\ CanCall
    /\ \E wrappedResult \in ResultHandles, index \in Indexes, v \in values :
      Returns(rowsetColumnName(wrappedResult, index, v))

(***************************************************************************)
(* uploadDatabase, downloadDatabase                                        *)
(***************************************************************************)
Names == { NullString, JString(<< 110 >>) }

HostObjects == {0, 7}       \* raw jobject values: null and some object

UploadDatabase ==
    /\ CanCall
    /\ \E thiz \in Bridges, name \in Names, encryption_key \in Names,
       data_handler \in {7}, file_size \in {5},
       callback \in HostObjects, r \in NativeBools :
      Executes(thiz,
               Holding(StringUTFChars(name) \o StringUTFChars(encryption_key),
                 Done("uploadDatabase",
                      << thiz, name, encryption_key, data_handler, file_size, callback >>,
                      << NativeCall("SQCloudUploadDatabase",
                                    << getConnection(thiz), cString(name),
                                       cString(encryption_key), data_handler,
                                       file_size, callback >>, r) >>,
                      ToJBoolean(r))))

DownloadDatabase ==
    /\ CanCall
    /\ \E thiz \in Bridges, name \in Names, data_handler \in {7},
       callback \in HostObjects, r \in NativeBools :
      Executes(thiz,
               Holding(StringUTFChars(name),
                 Done("downloadDatabase", << thiz, name, data_handler, callback >>,
                      << NativeCall("SQCloudDownloadDatabase",
                                    << getConnection(thiz), cString(name),
                                       data_handler, callback >>, r) >>,
                      ToJBoolean(r))))

(***************************************************************************)
(* Blobs                                                                   *)
(***************************************************************************)
BlobHandles == {NullRef} \cup { wrapPointer(blob) : blob \in BlobPtrs }

\* The direct buffers the host reads into and writes from.
HostBuffers == { NewDirectByteBuffer(80, 0), NewDirectByteBuffer(81, 4),
                 NewDirectByteBuffer(82, 16) }

openBlob(thiz, schema, table, column, row_id, read_write, handle) ==
    Holding(StringUTFChars(schema) \o StringUTFChars(table) \o StringUTFChars(column),
      Done("openBlob", << thiz, schema, table, column, row_id, read_write >>,
           << NativeCall("SQCloudBlobOpen",
                         << getConnection(thiz), cString(schema), cString(table),
                            cString(column), row_id, ToBool(read_write) >>, handle) >>,
           wrapPointer(handle)))

OpenBlob ==
    /\ CanCall
    /\ \E thiz \in Bridges, schema \in Names, row_id \in NativeInts,
       read_write \in JBooleans, handle \in {0} \cup BlobPtrs :
      Executes(thiz, openBlob(thiz, schema, JString(<< 116 >>), JString(<< 99 >>),
                              row_id, read_write, handle))

ReopenBlob ==
    /\ CanCall
    /\ \E handle \in BlobHandles, row_id \in NativeInts, r \in NativeBools :
      Returns(Done("reopenBlob", << handle, row_id >>,
                   << NativeCall("SQCloudBlobReOpen", << unwrapBlob(handle), row_id >>, r) >>,
                   ToJBoolean(r)))

CloseBlob ==
    /\ CanCall
    /\ \E handle \in BlobHandles, r \in NativeBools :
      Returns(Done("closeBlob", << handle >>,
                   << NativeCall("SQCloudBlobClose", << unwrapBlob(handle) >>, r) >>,
                   ToJBoolean(r)))

BlobFieldSize ==
    /\ CanCall
    /\ \E handle \in BlobHandles, r \in NativeInts :
      Returns(Done("blobFieldSize", << handle >>,
                   << NativeCall("SQCloudBlobBytes", << unwrapBlob(handle) >>, r) >>,
                   r))

\* A plausible slip: the handle's capacity taken for the buffer's.
readBlobHandleCapacity(handle, buffer, r) ==
    Done("readBlob", << handle, buffer >>,
         << NativeCall("SQCloudBlobRead",
                       << unwrapBlob(handle), GetDirectBufferAddress(buffer),
                          GetDirectBufferCapacity(handle), 0 >>, r) >>,
         r)

readBlob(handle, buffer, r) ==
    Done("readBlob", << handle, buffer >>,
         << NativeCall("SQCloudBlobRead",
                       << unwrapBlob(handle), GetDirectBufferAddress(buffer),
                          GetDirectBufferCapacity(buffer), 0 >>, r) >>,
         r)

ReadBlob ==
    /\ CanCall
    /\ \E handle \in BlobHandles, buffer \in HostBuffers, r \in NativeInts :
      Returns(readBlob(handle, buffer, r))

writeBlob(handle, buffer, r) ==
    Done("writeBlob", << handle, buffer >>,
         << NativeCall("SQCloudBlobWrite",
                       << unwrapBlob(handle), GetDirectBufferAddress(buffer),
                          GetDirectBufferCapacity(buffer), 0 >>, r) >>,
         r)

WriteBlob ==
    /\ CanCall
    /\ \E handle \in BlobHandles, buffer \in HostBuffers, r \in NativeInts :
      Returns(writeBlob(handle, buffer, r))

(***************************************************************************)
(* The statement virtual machine                                           *)
(***************************************************************************)
VmBindInt ==
    /\ CanCall
    /\ \E wrappedVM \in VMHandles, row_index \in Indexes, value \in NativeInts, r \in NativeBools :
      Returns(Done("vmBindInt", << wrappedVM, row_index, value >>,
                   << NativeCall("SQCloudVMBindInt", << unwrapVM(wrappedVM), row_index, value >>, r) >>,
                   ToJBoolean(r)))

VmBindInt64 ==
    /\ CanCall
    /\ \E wrappedVM \in VMHandles, row_index \in Indexes, value \in NativeInts, r \in NativeBools :
      Returns(Done("vmBindInt64", << wrappedVM, row_index, value >>,
                   << NativeCall("SQCloudVMBindInt64", << unwrapVM(wrappedVM), row_index, value >>, r) >>,
                   ToJBoolean(r)))

VmBindDouble ==
    /\ CanCall
    /\ \E wrappedVM \in VMHandles, row_index \in Indexes, value \in NativeInts, r \in NativeBools :
      Returns(Done("vmBindDouble", << wrappedVM, row_index, value >>,
                   << NativeCall("SQCloudVMBindDouble", << unwrapVM(wrappedVM), row_index, value >>, r) >>,
                   ToJBoolean(r)))

VmBindText ==
    /\ CanCall
    /\ \E wrappedVM \in VMHandles, row_index \in Indexes, value \in Names, byteSize \in NativeInts, r \in NativeBools :
      Returns(Holding(StringUTFChars(value),
                Done("vmBindText", << wrappedVM, row_index, value, byteSize >>,
                     << NativeCall("SQCloudVMBindText", << unwrapVM(wrappedVM), row_index, cString(value), byteSize >>, r) >>,
                     ToJBoolean(r))))

VmBindBlob ==
    /\ CanCall
    /\ \E wrappedVM \in VMHandles, row_index \in Indexes, value \in HostBuffers, r \in NativeBools :
      Returns(Done("vmBindBlob", << wrappedVM, row_index, value >>,
                   << NativeCall("SQCloudVMBindBlob", << unwrapVM(wrappedVM), row_index, unwrapPointer(value), GetDirectBufferCapacity(value) >>, r) >>,
                   ToJBoolean(r)))

VmBindZeroBlob ==
    /\ CanCall
    /\ \E wrappedVM \in VMHandles, row_index \in Indexes, r \in NativeBools :
      Returns(Done("vmBindZeroBlob", << wrappedVM, row_index >>,
                   << NativeCall("SQCloudVMBindZeroBlob", << unwrapVM(wrappedVM), row_index, 0 >>, r) >>,
                   ToJBoolean(r)))

VmBindNull ==
    /\ CanCall
    /\ \E wrappedVM \in VMHandles, row_index \in Indexes, r \in NativeBools :
      Returns(Done("vmBindNull", << wrappedVM, row_index >>,
                   << NativeCall("SQCloudVMBindNull", << unwrapVM(wrappedVM), row_index >>, r) >>,
                   ToJBoolean(r)))

vmCompile(thiz, query, vm) ==
    Holding(StringUTFChars(query),
      Done("vmCompile", << thiz, query >>,
           << NativeCall("SQCloudVMCompile",
                         << getConnection(thiz), cString(query), -1, 0 >>, vm) >>,
           wrapPointer(vm)))

VmCompile ==
    /\ CanCall
    /\ \E thiz \in Bridges, query \in Queries, vm \in {0} \cup VMPtrs :
      Executes(thiz, vmCompile(thiz, query, vm))

VmStep ==
    /\ CanCall
    /\ \E wrappedVM \in VMHandles, r \in NativeInts :
      Returns(Done("vmStep", << wrappedVM >>,
                   << NativeCall("SQCloudVMStep", << unwrapVM(wrappedVM) >>, r) >>,
                   r))

VmClose ==
    /\ CanCall
    /\ \E wrappedVM \in VMHandles, r \in NativeBools :
      Returns(Done("vmClose", << wrappedVM >>,
                   << NativeCall("SQCloudVMClose", << unwrapVM(wrappedVM) >>, r) >>,
                   ToJBoolean(r)))

VmColumnCount ==
    /\ CanCall
    /\ \E wrappedVM \in VMHandles, r \in NativeInts :
      Returns(Done("vmColumnCount", << wrappedVM >>,
                   << NativeCall("SQCloudVMColumnCount", << unwrapVM(wrappedVM) >>, r) >>,
                   r))

VmLastRowID ==
    /\ CanCall
    /\ \E wrappedVM \in VMHandles, r \in NativeInts :
      Returns(Done("vmLastRowID", << wrappedVM >>,
                   << NativeCall("SQCloudVMLastRowID", << unwrapVM(wrappedVM) >>, r) >>,
                   r))

VmChanges ==
    /\ CanCall
    /\ \E wrappedVM \in VMHandles, r \in NativeInts :
      Returns(Done("vmChanges", << wrappedVM >>,
                   << NativeCall("SQCloudVMChanges", << unwrapVM(wrappedVM) >>, r) >>,
                   r))

VmTotalChanges ==
    /\ CanCall
    /\ \E wrappedVM \in VMHandles, r \in NativeInts :
      Returns(Done("vmTotalChanges", << wrappedVM >>,
                   << NativeCall("SQCloudVMTotalChanges", << unwrapVM(wrappedVM) >>, r) >>,
                   r))

VmIsReadOnly ==
    /\ CanCall
    /\ \E wrappedVM \in VMHandles, r \in NativeBools :
      Returns(Done("vmIsReadOnly", << wrappedVM >>,
                   << NativeCall("SQCloudVMIsReadOnly", << unwrapVM(wrappedVM) >>, r) >>,
                   ToJBoolean(r)))

VmIsExplain ==
    /\ CanCall
    /\ \E wrappedVM \in VMHandles, r \in NativeInts :
      Returns(Done("vmIsExplain", << wrappedVM >>,
                   << NativeCall("SQCloudVMIsExplain", << unwrapVM(wrappedVM) >>, r) >>,
                   r))

VmIsFinalized ==
    /\ CanCall
    /\ \E wrappedVM \in VMHandles, r \in NativeBools :
      Returns(Done("vmIsFinalized", << wrappedVM >>,
                   << NativeCall("SQCloudVMIsFinalized", << unwrapVM(wrappedVM) >>, r) >>,
                   ToJBoolean(r)))

VmBindParameterCount ==
    /\ CanCall
    /\ \E wrappedVM \in VMHandles, r \in NativeInts :
      Returns(Done("vmBindParameterCount", << wrappedVM >>,
                   << NativeCall("SQCloudVMBindParameterCount", << unwrapVM(wrappedVM) >>, r) >>,
                   r))

VmBindParameterIndex ==
    /\ CanCall
    /\ \E wrappedVM \in VMHandles, name \in Names, r \in NativeInts :
      Returns(Holding(StringUTFChars(name),
                Done("vmBindParameterIndex", << wrappedVM, name >>,
                     << NativeCall("SQCloudVMBindParameterIndex", << unwrapVM(wrappedVM), cString(name) >>, r) >>,
                     r)))

VmBindParameterName ==
    /\ CanCall
    /\ \E wrappedVM \in VMHandles, index \in Indexes, r \in NativeCStrings :
      Returns(Done("vmBindParameterName", << wrappedVM, index >>,
                   << NativeCall("SQCloudVMBindParameterName", << unwrapVM(wrappedVM), index >>, r) >>,
                   NewStringUTF(r)))

VmColumnType ==
    /\ CanCall
    /\ \E wrappedVM \in VMHandles, index \in Indexes, r \in NativeInts :
      Returns(Done("vmColumnType", << wrappedVM, index >>,
                   << NativeCall("SQCloudVMColumnType", << unwrapVM(wrappedVM), index >>, r) >>,
                   r))

\* A plausible slip: the null guard of vmErrorCode copied here.
vmResultGuarded(wrappedVM, result) ==
    IF unwrapVM(wrappedVM) = 0
    THEN Done("vmResult", << wrappedVM >>, << >>, NullRef)
    ELSE Done("vmResult", << wrappedVM >>,
              << NativeCall("SQCloudVMResult", << unwrapVM(wrappedVM) >>, result) >>,
              wrapPointer(result))

vmResult(wrappedVM, result) ==
    Done("vmResult", << wrappedVM >>,
         << NativeCall("SQCloudVMResult", << unwrapVM(wrappedVM) >>, result) >>,
         wrapPointer(result))

VmResult ==
    /\ CanCall
    /\ \E wrappedVM \in VMHandles, result \in {0} \cup ResultPtrs :
      Returns(vmResult(wrappedVM, result))

VmColumnInt64 ==
    /\ CanCall
    /\ \E wrappedVM \in VMHandles, index \in Indexes, r \in NativeInts :
      Returns(Done("vmColumnInt64", << wrappedVM, index >>,
                   << NativeCall("SQCloudVMColumnInt64", << unwrapVM(wrappedVM), index >>, r) >>,
                   r))

VmColumnDouble ==
    /\ CanCall
    /\ \E wrappedVM \in VMHandles, index \in Indexes, r \in NativeInts :
      Returns(Done("vmColumnDouble", << wrappedVM, index >>,
                   << NativeCall("SQCloudVMColumnDouble", << unwrapVM(wrappedVM), index >>, r) >>,
                   r))

vmColumnText(wrappedVM, index, v) ==
    Done("vmColumnText", << wrappedVM, index >>,
         << NativeCall("SQCloudVMColumnText", << unwrapVM(wrappedVM), index >>, v) >>,
         NewStringUTF(v.ptr))

VmColumnText(values) ==
    /\ CanCall
    /\ \E wrappedVM \in VMHandles, index \in Indexes, v \in values :
      Returns(vmColumnText(wrappedVM, index, v))

vmColumnBlob(wrappedVM, index, v) ==
    Done("vmColumnBlob", << wrappedVM, index >>,
         << NativeCall("SQCloudVMColumnBlob", << unwrapVM(wrappedVM), index >>, v) >>,
         NewDirectByteBuffer(v.ptr.addr, v.len))

VmColumnBlob(values) ==
    /\ CanCall
    /\ \E wrappedVM \in VMHandles, index \in Indexes, v \in values :
      Returns(vmColumnBlob(wrappedVM, index, v))

(***************************************************************************)
(* The bridge as the host and the library drive it.                        *)
(***************************************************************************)
Next ==
    \/ HostResumes
    \/ DoConnect \/ DoDisconnect \/ IsError \/ IsSQLiteError
    \/ ErrorCode \/ ErrorMessage \/ ExtendedErrorCode \/ ErrorOffset
    \/ VmErrorCode \/ VmErrorMessage
    \/ RaiseEvent \/ SetPubSubCallback \/ SetPubSubOnly \/ GetClientUUID
    \/ ExecuteCommand \/ ExecuteArrayCommand(FewParamArrays)
    \/ FreeResult \/ ResultType \/ IntResult \/ LongResult \/ DoubleResult
    \/ StringResult(FewValues) \/ BufferResult(FewValues)
    \/ ArrayResultSize \/ ArrayResultValueType \/ ArrayResultLongValue
    \/ ArrayResultDoubleValue \/ ArrayResultStringValue(FewValues)
    \/ ArrayResultBufferValue(FewValues)
    \/ RowsetResultRowCount \/ RowsetResultColumnCount
    \/ RowsetResultColumnName(FewValues) \/ RowsetResultValueType
    \/ RowsetResultLongValue \/ RowsetResultDoubleValue
    \/ RowsetResultStringValue(FewValues) \/ RowsetResultBufferValue(FewValues)
    \/ UploadDatabase \/ DownloadDatabase
    \/ OpenBlob \/ ReopenBlob \/ CloseBlob \/ BlobFieldSize \/ ReadBlob \/ WriteBlob
    \/ VmBindInt \/ VmBindInt64 \/ VmBindDouble \/ VmBindText \/ VmBindBlob
    \/ VmBindZeroBlob \/ VmBindNull \/ VmCompile \/ VmStep \/ VmClose
    \/ VmColumnCount \/ VmLastRowID \/ VmChanges \/ VmTotalChanges
    \/ VmIsReadOnly \/ VmIsExplain \/ VmIsFinalized
    \/ VmBindParameterCount \/ VmBindParameterIndex \/ VmBindParameterName
    \/ VmColumnType \/ VmResult \/ RowsetColumnName(FewValues)
    \/ VmColumnInt64 \/ VmColumnDouble \/ VmColumnText(FewValues)
    \/ VmColumnBlob(FewValues)

Spec == Init /\ [][Next]_vars

(***************************************************************************)
(* Further specifications: one function family driven with all the         *)
(* argument values the bounds allow.                                       *)
(***************************************************************************)
Chars == {0, 65, 233, 8364}     \* U+0000, 'A', e-acute, the euro sign

HostStrings == {NullString} \cup { JString(cs) : cs \in BoundedSeq(Chars, MaxStrLen) }

StringFields ==
    { "hostname", "username", "password", "database", "tls_root_certificate",
      "tls_certificate", "tls_certificate_key" }

BoolFields ==
    { "compression", "sqlite_mode", "zero_text", "password_hashed",
      "nonlinearizable", "db_memory", "no_blob", "db_create", "insecure" }

IntFields == { "port", "timeout", "family", "max_data", "max_rows", "max_rowset" }

\* The arguments of BaseArgs with one of them replaced.
ConnectArgs ==
    { [BaseArgs EXCEPT ![f] = v] : f \in StringFields, v \in HostStrings }
    \cup { [BaseArgs EXCEPT ![f] = v] : f \in BoolFields, v \in JBooleans }
    \cup { [BaseArgs EXCEPT ![f] = v] : f \in IntFields, v \in {-1, 0, 7} }

DoConnectWithAnyArguments ==
    /\ CanCall
    /\ \E thiz \in Bridges, a \in ConnectArgs : Connect(thiz, a)

NextConnect == HostResumes \/ DoConnectWithAnyArguments \/ DoDisconnect

SpecConnect == Init /\ [][NextConnect]_vars

NextStrings ==
    \/ HostResumes
    \/ StringResult(AllValues)
    \/ ArrayResultStringValue(AllValues)
    \/ RowsetResultColumnName(AllValues)
    \/ RowsetResultStringValue(AllValues)
    \/ RowsetColumnName(AllValues)
    \/ VmColumnText(AllValues)

SpecStrings == Init /\ [][NextStrings]_vars

ParamObjects ==
    { StringParam(cs) : cs \in BoundedSeq(Chars, MaxStrLen) }
    \cup { BufferParam(80, 0), BufferParam(81, 4) }

AllParamArrays == BoundedSeq(ParamObjects, MaxParams)

NextExecArray ==
    HostResumes \/ DoConnect \/ ExecuteArrayCommand(AllParamArrays)

SpecExecArray == Init /\ [][NextExecArray]_vars

(***************************************************************************)
(* What the claims speak of.                                               *)
(***************************************************************************)
\* Every exported function with the native function it exists to call and
\* the way its result goes back to the host.
Forwarding ==
    { << "doConnect", "SQCloudConnect", "handle" >>,
      << "doDisconnect", "SQCloudDisconnect", "void" >>,
      << "isError", "SQCloudIsError", "bool" >>,
      << "isSQLiteError", "SQCloudIsSQLiteError", "bool" >>,
      << "errorCode", "SQCloudErrorCode", "Integer" >>,
      << "errorMessage", "SQCloudErrorMsg", "cstring" >>,
      << "extendedErrorCode", "SQCloudExtendedErrorCode", "Integer" >>,
      << "errorOffset", "SQCloudErrorOffset", "Integer" >>,
      << "vmErrorCode", "SQCloudVMErrorCode", "Integer" >>,
      << "vmErrorMessage", "SQCloudVMErrorMsg", "cstring" >>,
      << "setPubSubCallback", "SQCloudSetPubSubCallback", "void" >>,
      << "setPubSubOnly", "SQCloudSetPubSubOnly", "handle" >>,
      << "getClientUUID", "SQCloudUUID", "cstring" >>,
      << "executeCommand", "SQCloudExec", "handle" >>,
      << "executeArrayCommand", "SQCloudExecArray", "handle" >>,
      << "freeResult", "SQCloudResultFree", "void" >>,
      << "resultType", "SQCloudResultType", "value" >>,
      << "intResult", "SQCloudResultInt32", "value" >>,
      << "longResult", "SQCloudResultInt64", "value" >>,
      << "doubleResult", "SQCloudResultDouble", "value" >>,
      << "stringResult", "SQCloudResultBuffer", "text" >>,
      << "bufferResult", "SQCloudResultBuffer", "bytes" >>,
      << "arrayResultSize", "SQCloudArrayCount", "value" >>,
      << "arrayResultValueType", "SQCloudArrayValueType", "value" >>,
      << "arrayResultLongValue", "SQCloudArrayInt64Value", "value" >>,
      << "arrayResultDoubleValue", "SQCloudArrayDoubleValue", "value" >>,
      << "arrayResultStringValue", "SQCloudArrayValue", "text" >>,
      << "arrayResultBufferValue", "SQCloudArrayValue", "bytes" >>,
      << "rowsetResultRowCount", "SQCloudRowsetRows", "value" >>,
      << "rowsetResultColumnCount", "SQCloudRowsetCols", "value" >>,
      << "rowsetResultColumnName", "SQCloudRowsetColumnName", "text" >>,
      << "rowsetResultValueType", "SQCloudRowsetValueType", "value" >>,
      << "rowsetResultLongValue", "SQCloudRowsetInt64Value", "value" >>,
      << "rowsetResultDoubleValue", "SQCloudRowsetDoubleValue", "value" >>,
      << "rowsetResultStringValue", "SQCloudRowsetValue", "text" >>,
      << "rowsetResultBufferValue", "SQCloudRowsetValue", "bytes" >>,
      << "uploadDatabase", "SQCloudUploadDatabase", "bool" >>,
      << "downloadDatabase", "SQCloudDownloadDatabase", "bool" >>,
      << "openBlob", "SQCloudBlobOpen", "handle" >>,
      << "reopenBlob", "SQCloudBlobReOpen", "bool" >>,
      << "closeBlob", "SQCloudBlobClose", "bool" >>,
      << "blobFieldSize", "SQCloudBlobBytes", "value" >>,
      << "readBlob", "SQCloudBlobRead", "value" >>,
      << "writeBlob", "SQCloudBlobWrite", "value" >>,
      << "vmBindInt", "SQCloudVMBindInt", "bool" >>,
      << "vmBindInt64", "SQCloudVMBindInt64", "bool" >>,
      << "vmBindDouble", "SQCloudVMBindDouble", "bool" >>,
      << "vmBindText", "SQCloudVMBindText", "bool" >>,
      << "vmBindBlob", "SQCloudVMBindBlob", "bool" >>,
      << "vmBindZeroBlob", "SQCloudVMBindZeroBlob", "bool" >>,
      << "vmBindNull", "SQCloudVMBindNull", "bool" >>,
      << "vmCompile", "SQCloudVMCompile", "handle" >>,
      << "vmStep", "SQCloudVMStep", "value" >>,
      << "vmClose", "SQCloudVMClose", "bool" >>,
      << "vmColumnCount", "SQCloudVMColumnCount", "value" >>,
      << "vmLastRowID", "SQCloudVMLastRowID", "value" >>,
      << "vmChanges", "SQCloudVMChanges", "value" >>,
      << "vmTotalChanges", "SQCloudVMTotalChanges", "value" >>,
      << "vmIsReadOnly", "SQCloudVMIsReadOnly", "bool" >>,
      << "vmIsExplain", "SQCloudVMIsExplain", "value" >>,
      << "vmIsFinalized", "SQCloudVMIsFinalized", "bool" >>,
      << "vmBindParameterCount", "SQCloudVMBindParameterCount", "value" >>,
      << "vmBindParameterIndex", "SQCloudVMBindParameterIndex", "value" >>,
      << "vmBindParameterName", "SQCloudVMBindParameterName", "cstring" >>,
      << "vmColumnType", "SQCloudVMColumnType", "value" >>,
      << "vmResult", "SQCloudVMResult", "handle" >>,
      << "rowsetColumnName", "SQCloudRowsetColumnName", "text" >>,
      << "vmColumnInt64", "SQCloudVMColumnInt64", "value" >>,
      << "vmColumnDouble", "SQCloudVMColumnDouble", "value" >>,
      << "vmColumnText", "SQCloudVMColumnText", "text" >>,
      << "vmColumnBlob", "SQCloudVMColumnBlob", "bytes" >> }

BridgeFns == { row[1] : row \in Forwarding }

RowOf(fn) == CHOOSE row \in Forwarding : row[1] = fn

ErrorAccessors == { "errorCode", "errorMessage", "extendedErrorCode", "errorOffset" }

HandleReturning ==
    { "doConnect", "executeCommand", "executeArrayCommand", "setPubSubOnly",
      "openBlob", "vmCompile", "vmResult" }

StringReturning ==
    { "stringResult", "arrayResultStringValue", "rowsetResultStringValue",
      "rowsetResultColumnName", "rowsetColumnName", "vmColumnText" }

\* The handle the host must get for a native pointer.
HandleFor(pointer, handle) ==
    IF pointer = 0 THEN handle.null
    ELSE ~handle.null /\ handle.address = pointer

\* `ret` is the native result `nret` marshaled the way `kind` says.
Marshaled(kind, nret, ret) ==
    CASE kind = "void" -> ret = Void
      [] kind = "value" -> ret = nret
      [] kind = "bool" -> ret = (IF nret THEN 1 ELSE 0)
      [] kind = "handle" -> HandleFor(nret, ret)
      [] kind = "Integer" -> ~ret.null /\ ret.value = nret
      [] kind = "cstring" -> ret = NewStringUTF(nret)
      [] kind = "text" -> ret = NewStringUTF(nret.ptr)
      [] kind = "bytes" -> ret.address = nret.ptr.addr /\ ret.capacity = nret.len

\* The call invoked its native function and returned that invocation's result.
Forwards(call) ==
    \E i \in DOMAIN call.native :
       /\ call.native[i].fn = RowOf(call.fn)[2]
       /\ Marshaled(RowOf(call.fn)[3], call.native[i].ret, call.ret)

(***************************************************************************)
(* C1.  As claimed: the bridge holds no data created by an earlier call    *)
(* that a later bridge call or callback reads.                             *)
(***************************************************************************)
C1_NoCallbackReadsKeptData ==
    last.fn = "pubSubCallback" => last.args[3] \notin DOMAIN pubSubHeap

\* C1 as amended: the only data the bridge keeps is the PubSubData block that
\* setPubSubCallback allocates for the calling bridge object; no other call
\* creates or changes bridge-held data, a block once written never changes,
\* and the only reader is pubSubCallback, which reads exactly the block
\* registered with it.
C1_OnlyPubSubDataIsKept ==
    [][ /\ pubSubHeap' # pubSubHeap =>
             /\ last'.fn = "setPubSubCallback"
             /\ Len(pubSubHeap') = Len(pubSubHeap) + 1
             /\ SubSeq(pubSubHeap', 1, Len(pubSubHeap)) = pubSubHeap
             /\ pubSubHeap'[Len(pubSubHeap')].thiz.obj = last'.args[1]
        /\ last'.fn = "pubSubCallback" /\ last' # last =>
             /\ last'.args[3] \in DOMAIN pubSubHeap
             /\ last'.thiz = pubSubHeap[last'.args[3]].thiz
             /\ last'.env = pubSubHeap[last'.args[3]].env ]_vars

C1_Witness ==
    /\ last.fn = "pubSubCallback"
    /\ last.args[3] \in DOMAIN pubSubHeap
    /\ last.thiz.obj = last.by

(***************************************************************************)
(* C2.  As claimed: every bridge function, for every argument value,       *)
(* invokes its native function and returns the marshaled result of that    *)
(* invocation.                                                             *)
(***************************************************************************)
C2_AlwaysForwards == last.fn \in BridgeFns => Forwards(last)

\* The functions that decide by a check of their own, and when they do.
DecidesAlone(call) ==
    CASE call.fn \in { "vmErrorCode", "vmErrorMessage" } ->
           GetDirectBufferAddress(call.args[1]) = 0
      [] call.fn = "getClientUUID" ->
           GetDirectBufferAddress(connection[call.args[1]]) = 0
      [] call.fn \in ErrorAccessors ->
           ~SQCloudErrorState(GetDirectBufferAddress(connection[call.args[1]])).is
      [] OTHER -> FALSE

\* C2 as amended: every bridge function invokes its native function and
\* returns the marshaled result, except that vmErrorCode and vmErrorMessage
\* with a null VM handle and getClientUUID with a null connection return null
\* without any native call, and errorCode, errorMessage, extendedErrorCode
\* and errorOffset return null after SQCloudIsError alone when it reports no
\* error.
C2_ForwardsUnlessGuarded ==
    last.fn \in BridgeFns =>
        IF DecidesAlone(last)
        THEN /\ last.ret.null
             /\ \A i \in DOMAIN last.native : last.native[i].fn = "SQCloudIsError"
             /\ last.fn \in ErrorAccessors <=> last.native # << >>
        ELSE Forwards(last)

C2_Witness ==
    /\ last.fn = "vmErrorCode"
    /\ last.args[1].null
    /\ last.native = << >>
    /\ last.ret.null

(***************************************************************************)
(* C3.  Pointer boxing round-trips and preserves null: the seven functions *)
(* that return a handle return null exactly when the native call returned  *)
(* a null pointer, and otherwise a handle that unwraps to that pointer.    *)
(***************************************************************************)
C3_PointerBoxing ==
    /\ wrapPointer(0).null
    /\ \A p \in ConnPtrs \cup ResultPtrs \cup VMPtrs \cup BlobPtrs :
         ~wrapPointer(p).null /\ unwrapPointer(wrapPointer(p)) = p
    /\ last.fn \in HandleReturning =>
         LET nret == last.native[Len(last.native)].ret IN
         /\ last.ret.null <=> nret = 0
         /\ nret # 0 => unwrapPointer(last.ret) = nret

C3_Witness ==
    /\ last.fn = "vmCompile"
    /\ last.native[1].ret \in VMPtrs
    /\ unwrapPointer(last.ret) = last.native[1].ret

(***************************************************************************)
(* C4.  Every native pub/sub event results in exactly one invocation of    *)
(* pubSubCallback on the bridge object that registered, with the wrapped   *)
(* result of the event (null for a null result).                           *)
(***************************************************************************)
C4_DeliveredExactlyOnce ==
    last.fn = "pubSubCallback" =>
        /\ Len(last.invoked) = 1
        /\ last.invoked[1].obj = last.by
        /\ last.invoked[1].method = "pubSubCallback"
        /\ HandleFor(last.args[2], last.invoked[1].arg)

(***************************************************************************)
(* C5.  doConnect forwards the host's arguments unchanged: integers equal, *)
(* booleans true exactly when the host's are, strings null exactly when    *)
(* the host's are and otherwise the host string's characters, hostname and *)
(* port as given.                                                          *)
(***************************************************************************)
\* The C string at `chars` is null for a null host string and otherwise holds
\* the host string's characters.
SameString(chars, string) ==
    /\ chars.addr = 0 <=> string.null
    /\ ~string.null => DecodeModifiedUTF8(UpToNul(chars.mem)) = string.chars

C5_ConnectForwardsArguments ==
    last.fn = "doConnect" =>
        LET a == last.args[1]
            n == last.native[1]
            config == n.args[3] IN
        /\ n.fn = "SQCloudConnect"
        /\ SameString(n.args[1], a.hostname)
        /\ n.args[2] = a.port
        /\ \A f \in StringFields \ {"hostname"} : SameString(config[f], a[f])
        /\ \A f \in IntFields \ {"port"} : config[f] = a[f]
        /\ \A f \in BoolFields : config[f] <=> a[f] # 0
        /\ DOMAIN config = (StringFields \cup IntFields \cup BoolFields)
                               \ {"hostname", "port"}

C5_Witness ==
    /\ last.fn = "doConnect"
    /\ last.args[1].database.null
    /\ last.native[1].args[3].database.addr = 0
    /\ last.native[1].args[3].username.addr # 0

(***************************************************************************)
(* C6.  Whenever pubSubCallback runs, the JNIEnv it uses is that of the    *)
(* thread it runs on and the bridge-object reference it uses is valid.     *)
(***************************************************************************)
C6_EnvAndReferenceValid ==
    last.fn = "pubSubCallback" => last.envIsOfThread /\ last.thizIsValid

(***************************************************************************)
(* C7.  The string accessors return exactly the first n bytes at the       *)
(* pointer, n being the length the library reports for the value.          *)
(***************************************************************************)
C7_StringIsExactlyTheValue ==
    last.fn \in StringReturning /\ last.native[1].ret.ptr.addr # 0 =>
        LET v == last.native[1].ret IN
        /\ ~last.ret.null
        /\ last.ret.chars = SubSeq(v.ptr.mem, 1, v.len)

(***************************************************************************)
(* C8.  executeArrayCommand passes params.length parameters in order, and  *)
(* for every one the length passed is the number of bytes at the pointer   *)
(* passed: the capacity of a blob's buffer, the byte length of the UTF-8   *)
(* encoding of a string.                                                   *)
(***************************************************************************)
C8_ParamsMarshaledFaithfully ==
    last.fn = "executeArrayCommand" =>
        LET params == last.args[3]
            n == last.native[1]
            nativeParams == n.args[3]
            paramLengths == n.args[4] IN
        /\ n.args[6] = Len(params)
        /\ DOMAIN nativeParams = 1..Len(params)
        /\ DOMAIN paramLengths = 1..Len(params)
        /\ \A i \in 1..Len(params) :
             IF params[i].isBuffer
             THEN /\ nativeParams[i].addr = params[i].buffer.address
                  /\ paramLengths[i] = params[i].buffer.capacity
             ELSE /\ SameString(nativeParams[i], params[i].string)
                  /\ paramLengths[i] = Len(UpToNul(nativeParams[i].mem))

(***************************************************************************)
(* C9.  errorCode, errorMessage, extendedErrorCode and errorOffset return  *)
(* null exactly when SQCloudIsError reports no error on the bridge's       *)
(* connection, otherwise the value of their own accessor for that          *)
(* connection, and never change the connection's error state.              *)
(***************************************************************************)
C9_ErrorAccessors ==
    [][ last'.fn \in ErrorAccessors /\ last' # last =>
          LET e == SQCloudErrorState(GetDirectBufferAddress(connection[last'.args[1]])) IN
          /\ nativeConn' = nativeConn
          /\ connection' = connection
          /\ last'.ret.null <=> ~e.is
          /\ e.is =>
               CASE last'.fn = "errorCode" -> last'.ret.value = e.code
                 [] last'.fn = "errorMessage" -> last'.ret.chars = UpToNul(e.msg.mem)
                 [] last'.fn = "extendedErrorCode" -> last'.ret.value = e.xcode
                 [] last'.fn = "errorOffset" -> last'.ret.value = e.offset ]_vars

C9_Witness ==
    /\ last.fn = "errorCode"
    /\ ~last.ret.null
    /\ IsLive(getConnection(last.args[1]))
    /\ last.ret.value = nativeConn[getConnection(last.args[1])].err.code

(***************************************************************************)
(* C10.  readBlob and writeBlob make one native call on the unwrapped      *)
(* handle with the buffer's address, the buffer's full capacity and blob   *)
(* offset 0, whatever calls came before, and return its result unchanged.  *)
(***************************************************************************)
C10_BlobPassThrough ==
    last.fn \in { "readBlob", "writeBlob" } =>
        LET handle == last.args[1]
            buffer == last.args[2] IN
        /\ Len(last.native) = 1
        /\ last.native[1].fn =
             (IF last.fn = "readBlob" THEN "SQCloudBlobRead" ELSE "SQCloudBlobWrite")
        /\ last.native[1].args =
             << (IF handle.null THEN 0 ELSE handle.address),
                buffer.address, buffer.capacity, 0 >>
        /\ last.ret = last.native[1].ret

C10_Witness ==
    /\ last.fn = "readBlob"
    /\ ~last.args[1].null
    /\ last.args[2].capacity = 16
    /\ last.native[1].args[3] = 16
    /\ last.native[1].args[4] = 0


(***************************************************************************)
(* The buffer accessors driven with every value the bounds allow.          *)
(***************************************************************************)
BufferReturning ==
    { "bufferResult", "arrayResultBufferValue", "rowsetResultBufferValue",
      "vmColumnBlob" }

NextBuffers ==
    \/ HostResumes
    \/ BufferResult(AllValues)
    \/ ArrayResultBufferValue(AllValues)
    \/ RowsetResultBufferValue(AllValues)
    \/ VmColumnBlob(AllValues)

SpecBuffers == Init /\ [][NextBuffers]_vars

(***************************************************************************)
(* C11.  bufferResult, arrayResultBufferValue, rowsetResultBufferValue and *)
(* vmColumnBlob return a direct buffer whose address is the pointer the    *)
(* native accessor returned and whose capacity is the length the library   *)
(* reports for that same value (SQCloudResultLen of the same result, or    *)
(* the length the accessor wrote), not the pointer-size capacity of a      *)
(* handle.                                                                 *)
(***************************************************************************)
C11_BufferHasNativeLength ==
    last.fn \in BufferReturning =>
        LET v == last.native[1].ret
            reported == IF last.fn = "bufferResult"
                        THEN last.native[2].ret ELSE v.len IN
        /\ last.native[1].fn = RowOf(last.fn)[2]
        /\ last.fn = "bufferResult" =>
             /\ last.native[2].fn = "SQCloudResultLen"
             /\ last.native[2].args = last.native[1].args
        /\ ~last.ret.null
        /\ last.ret.address = v.ptr.addr
        /\ last.ret.capacity = reported
        /\ reported # PointerSize => last.ret.capacity # PointerSize

C11_Witness ==
    /\ last.fn = "arrayResultBufferValue"
    /\ last.native[1].ret.ptr.addr # 0
    /\ last.native[1].ret.len = 2
    /\ last.ret.capacity = 2


(***************************************************************************)
(* C12.  No bridge call leaves a transient allocation behind: whatever a   *)
(* call obtained with GetStringUTFChars, GetIntArrayElements or calloc it  *)
(* has released when it returns, so no completed call has an outstanding   *)
(* acquisition.                                                            *)
(***************************************************************************)
Outstanding(call) == Len(call.acquired) - Len(call.released)

C12_NothingLeftBehind == last.fn \in BridgeFns => Outstanding(last) = 0


(***************************************************************************)
(* C13.  The callback context is bounded and reclaimed: a setPubSubCallback*)
(* on a connection that already has a PubSubData block registered does not *)
(* leave that first block allocated, and doDisconnect of a connection      *)
(* leaves no block of that connection allocated.                           *)
(***************************************************************************)
\* The PubSubData blocks allocated and not deleted.
LiveBlocks(heap) == DOMAIN heap

\* The block the library holds as callback data of `conn`, if any.
RegisteredBlocks(conn) ==
    IF conn # 0 /\ nativeConn[conn].cb.fn = "pubSubCallback"
    THEN { nativeConn[conn].cb.data } ELSE { }

C13_ContextBoundedAndReclaimed ==
    [][ last'.fn \in { "setPubSubCallback", "doDisconnect" } /\ last' # last =>
          RegisteredBlocks(last'.native[1].args[1]) \cap LiveBlocks(pubSubHeap') = { }
      ]_vars


(***************************************************************************)
(* executeArrayCommand with a param_types array of any length next to the  *)
(* params array.  The parameters are strings and the types the host gives  *)
(* are VALUE_TEXT; a read of paramTypes past its end may yield anything.   *)
(***************************************************************************)
TextParamArrays ==
    BoundedSeq({ StringParam(<< >>), StringParam(<< 65 >>) }, MaxParams)

TypeArrays == BoundedSeq({ VALUE_TEXT }, MaxParams + 1)

\* What the int at an address past the end of the array may hold.
OutOfBoundsInts == { 0, VALUE_TEXT, VALUE_BLOB }

ExecuteArrayCommandWithTypes ==
    /\ CanCall
    /\ \E thiz \in Bridges, params \in TextParamArrays, param_types \in TypeArrays,
          oob \in OutOfBoundsInts, result \in {0} \cup ResultPtrs :
      Executes(thiz,
               executeArrayCommand(thiz, JString(<< 83 >>), params, param_types,
                                   oob, result))

NextExecTypes == HostResumes \/ DoConnect \/ ExecuteArrayCommandWithTypes

SpecExecTypes == Init /\ [][NextExecTypes]_vars

(***************************************************************************)
(* C14.  executeArrayCommand never reads outside its inputs: every index   *)
(* at which it reads param_types (one per parameter it marshals) is within *)
(* param_types, and the type array it passes to SQCloudExecArray has at    *)
(* least as many elements as the parameter count passed with it.           *)
(***************************************************************************)
C14_TypesReadInBounds ==
    last.fn = "executeArrayCommand" =>
        LET param_types == last.args[4]
            n == last.native[1]
            marshaled == DOMAIN n.args[3]
            types == n.args[5]
            paramCount == n.args[6] IN
        /\ \A i \in marshaled : i \in DOMAIN param_types
        /\ Len(types) >= paramCount


(***************************************************************************)
(* The error accessors step by step, next to a second thread that runs     *)
(* commands on the same connection.  An accessor first asks SQCloudIsError *)
(* (lines 123, 136, 145, 158); when that is true it reads the value with a *)
(* second native call (lines 129, 139, 151, 164).  Nothing in the bridge   *)
(* keeps another thread's call from running between the two.               *)
(***************************************************************************)
\* First step: the connection is fetched and SQCloudIsError is asked.
AccessorChecks ==
    /\ CanCall
    /\ inAccessor = NoAccessor
    /\ \E fn \in ErrorAccessors, thiz \in Bridges :
         LET conn == getConnection(thiz) IN
         /\ Usable(thiz)
         /\ IF SQCloudErrorState(conn).is
            THEN /\ inAccessor' = [fn |-> fn, thiz |-> thiz, conn |-> conn]
                 /\ UNCHANGED last
            ELSE /\ last' = Done(fn, << thiz >>,
                                 << NativeCall("SQCloudIsError", << conn >>, FALSE) >>,
                                 IF fn = "errorMessage" THEN NullString
                                 ELSE NullInteger)
                 /\ UNCHANGED inAccessor
    /\ UNCHANGED << connection, nativeConn, pubSubHeap, jvm >>

\* Second step: the value is read from the connection as it is now, boxed and
\* returned.
AccessorReads ==
    /\ CanCall
    /\ inAccessor # NoAccessor
    /\ LET fn == inAccessor.fn
           conn == inAccessor.conn
           e == SQCloudErrorState(conn)
           checked == NativeCall("SQCloudIsError", << conn >>, TRUE)
           read == CASE fn = "errorCode" ->
                          NativeCall("SQCloudErrorCode", << conn >>, e.code)
                     [] fn = "errorMessage" ->
                          NativeCall("SQCloudErrorMsg", << conn >>, e.msg)
                     [] fn = "extendedErrorCode" ->
                          NativeCall("SQCloudExtendedErrorCode", << conn >>, e.xcode)
                     [] fn = "errorOffset" ->
                          NativeCall("SQCloudErrorOffset", << conn >>, e.offset) IN
       last' = Done(fn, << inAccessor.thiz >>, << checked, read >>,
                    IF fn = "errorMessage" THEN NewStringUTF(read.ret)
                    ELSE NewInteger(read.ret))
    /\ inAccessor' = NoAccessor
    /\ UNCHANGED << connection, nativeConn, pubSubHeap, jvm >>

NextInterleaved ==
    HostResumes \/ DoConnect \/ ExecuteCommand \/ AccessorChecks \/ AccessorReads

SpecInterleaved == Init /\ [][NextInterleaved]_vars

(***************************************************************************)
(* C15.  A non-null result of errorCode, errorMessage, extendedErrorCode   *)
(* or errorOffset is the value of an error that was set when the accessor  *)
(* read it, also when a second thread runs a command on the connection     *)
(* while the accessor executes: the accessor never returns a value read    *)
(* while the connection was not in error.                                  *)
(***************************************************************************)
C15_ValueReadWhileInError ==
    [][ inAccessor # NoAccessor /\ inAccessor' = NoAccessor /\ ~last'.ret.null =>
          SQCloudErrorState(inAccessor.conn).is ]_vars

====
